---- MODULE Spec2Model ----
(***************************************************************************)
(* Model of the Bloom filter of src/src/bloomfilter/lib.rs (Bloom::new,    *)
(* new_for_fp_rate, compute_bitmap_size, set, check, check_and_set,        *)
(* number_of_bits, number_of_hash_functions, optimal_k_num, bloom_hash).   *)
(*                                                                         *)
(* TLC's integers are 32 bits wide, the program's are 32 and 64 bits wide: *)
(* every machine integer of the program is a natural number written as a   *)
(* little-endian sequence of 16-bit limbs without leading zero limbs (the  *)
(* empty sequence is 0), and the machine operations (u64 * and +, %, the   *)
(* "as usize" cast) are computed on that representation at their width.    *)
(***************************************************************************)
EXTENDS Integers, Sequences, FiniteSets

\* ---------------------------------------------------------------- numbers

Base == 2^16

RECURSIVE Norm(_)
\* the limbs without leading (most significant) zero limbs
Norm(s) ==
    IF s = <<>> THEN <<>>
    ELSE IF s[Len(s)] = 0 THEN Norm(SubSeq(s, 1, Len(s) - 1))
    ELSE s

RECURSIVE Big(_)
\* the number n >= 0 of the model's own integers as limbs
Big(n) == IF n = 0 THEN <<>> ELSE <<n % Base>> \o Big(n \div Base)

RECURSIVE Small(_)
\* the limbs' value as an integer of the model (values below 2^31 only)
Small(a) == IF a = <<>> THEN 0 ELSE a[1] + Base * Small(Tail(a))

Limb(a, i) == IF i <= Len(a) THEN a[i] ELSE 0

RECURSIVE AddFrom(_, _, _, _)
AddFrom(a, b, i, carry) ==
    IF i > Len(a) /\ i > Len(b)
    THEN IF carry = 0 THEN <<>> ELSE <<carry>>
    ELSE LET s == Limb(a, i) + Limb(b, i) + carry
         IN  <<s % Base>> \o AddFrom(a, b, i + 1, s \div Base)

BigAdd(a, b) == AddFrom(a, b, 1, 0)

RECURSIVE MulFrom(_, _, _, _)
MulFrom(a, c, i, carry) ==
    IF i > Len(a) THEN Big(carry)
    ELSE LET p == a[i] * c + carry
         IN  <<p % Base>> \o MulFrom(a, c, i + 1, p \div Base)

\* a * c for a multiplier 0 <= c < 2^15 of the model's own integers
BigMulSmall(a, c) == Norm(MulFrom(a, c, 1, 0))

\* a * c for a multiplier 0 <= c < 2^28: c = hi * 2^14 + lo
BigMulInt(a, c) ==
    BigAdd(BigMulSmall(BigMulSmall(a, c \div 2^14), 2^14),
           BigMulSmall(a, c % 2^14))

RECURSIVE LessFrom(_, _, _)
LessFrom(a, b, i) ==
    IF i = 0 THEN FALSE
    ELSE IF a[i] # b[i] THEN a[i] < b[i]
    ELSE LessFrom(a, b, i - 1)

BigLess(a, b) ==
    IF Len(a) # Len(b) THEN Len(a) < Len(b) ELSE LessFrom(a, b, Len(a))

BigLeq(a, b) == ~BigLess(b, a)

RECURSIVE SubFrom(_, _, _, _)
SubFrom(a, b, i, borrow) ==
    IF i > Len(a) THEN <<>>
    ELSE LET d == a[i] - Limb(b, i) - borrow
         IN  IF d < 0 THEN <<d + Base>> \o SubFrom(a, b, i + 1, 1)
             ELSE <<d>> \o SubFrom(a, b, i + 1, 0)

\* a - b for b <= a
BigSub(a, b) == Norm(SubFrom(a, b, 1, 0))

RECURSIVE Pow2(_)
\* 2^n
Pow2(n) == IF n < 16 THEN <<2^n>> ELSE <<0>> \o Pow2(n - 16)

\* a mod 2^bits, bits a multiple of 16: what a cast or a wrapping operation of
\* that width keeps
Wrap(a, bits) ==
    IF Len(a) <= bits \div 16 THEN a ELSE Norm(SubSeq(a, 1, bits \div 16))

\* a < 2^bits, bits a multiple of 16
Fits(a, bits) == Len(a) <= bits \div 16

\* b = 2^n for some n
IsPow2(b) ==
    /\ b # <<>>
    /\ \A i \in 1..(Len(b) - 1) : b[i] = 0
    /\ \E n \in 0..15 : b[Len(b)] = 2^n

\* a mod b for a power of two b: the bits of a below b's one bit
LowBits(a, b) ==
    Norm([i \in 1..Len(b) |->
            IF i < Len(b) THEN Limb(a, i) ELSE Limb(a, i) % b[i]])

RECURSIVE RemSmallFrom(_, _, _, _)
RemSmallFrom(a, m, i, r) ==
    IF i = 0 THEN r ELSE RemSmallFrom(a, m, i - 1, (r * Base + a[i]) % m)

RECURSIVE BigRem(_, _)
\* a mod b for b # 0: a itself below b; limb by limb for b up to 2^15; the
\* low bits for a power of two; else by taking b out of a
BigRem(a, b) ==
    IF BigLess(a, b) THEN a
    ELSE IF Len(b) = 1 /\ b[1] <= 2^15
    THEN Big(RemSmallFrom(a, b[1], Len(a), 0))
    ELSE IF IsPow2(b) THEN LowBits(a, b)
    ELSE BigRem(BigSub(a, b), b)

RECURSIVE CeilDiv(_, _)
\* ceil(num / den) for den # 0, as an integer of the model: how often den
\* has to be taken out of num to leave nothing
CeilDiv(num, den) ==
    IF num = <<>> THEN 0
    ELSE IF BigLeq(num, den) THEN 1
    ELSE 1 + CeilDiv(BigSub(num, den), den)

\* ------------------------------------------------------- inputs and state

\* how many distinct items the callers pass (items 1..NumItems)
NumItems == 2
\* how many distinct SipHash keys the random source can return (0..NumKeys-1)
NumKeys == 3
\* false positive rates 2^-e are drawn for e up to MaxFpExp
MaxFpExp == 2

Items == 1..NumItems
SipKeys == 0..(NumKeys - 1)

\* f64 values passed as fp_p: NaN, -1/2, 0.0, and 2^-e (2.0, 1.0, 1/2, 1/4, ..)
FpRates ==
    {[cls |-> "nan", e |-> 0], [cls |-> "neg", e |-> 1], [cls |-> "zero", e |-> 0]}
    \cup {[cls |-> "pos", e |-> e] : e \in (-1)..MaxFpExp}

NoRate == [cls |-> "none", e |-> 0]

\* fp_p > 0.0 and fp_p < 1.0 as IEEE comparisons (both false for NaN)
FloatGtZero(p) == p.cls = "pos"
FloatLtOne(p) == p.cls \in {"neg", "zero"} \/ (p.cls = "pos" /\ p.e >= 1)

\* (bitmap_size, items_count) pairs passed to Bloom::new; a pair is passed only
\* on a target whose usize holds both
NewArgs ==
    { <<Big(0), Big(2)>>, <<Big(1), Big(0)>>,
      <<Big(1), Big(2)>>, <<Big(1), Big(80)>>, <<Big(10), Big(80)>>,
      <<Pow2(61), Big(1)>>, <<BigAdd(Pow2(61), Big(1)), Big(2)>>,
      <<Pow2(29), Pow2(31)>>, <<Pow2(31), Big(1)>> }

\* items_count values passed to compute_bitmap_size and new_for_fp_rate
FpItemCounts == {Big(0), Big(2), Big(8)}

VARIABLES
    usize_bits,       \* the target's pointer width: 32 or 64
    overflow_checks,  \* whether the build traps on integer overflow or wraps
    phase,            \* "start", "ready" (a Bloom exists), "aborted" (a panic)
    ctor,             \* the arguments Bloom::new was given
    bitmap,           \* Bloom.bitmap: the offsets whose bit is true
    bitmap_len,       \* Bloom.bitmap: its length in bits
    bitmap_bits,      \* Bloom.bitmap_bits
    k_num,            \* Bloom.k_num
    sips,             \* Bloom.sips: the two SipHash keys
    inserted,         \* items a completed set or check_and_set was given
    lastOp            \* the last call, its arguments and what it returned

vars ==
    <<usize_bits, overflow_checks, phase, ctor, bitmap, bitmap_len,
      bitmap_bits, k_num, sips, inserted, lastOp>>

filter == <<bitmap, bitmap_len, bitmap_bits, k_num, sips>>
build == <<usize_bits, overflow_checks>>

NoCall ==
    [op |-> "none", bitmap_size |-> <<>>, items_count |-> <<>>, fp_p |-> NoRate,
     item |-> 0, outcome |-> "ok", found |-> FALSE, value |-> <<>>,
     rounds |-> <<>>]

NoCtor == [bitmap_size |-> <<>>, items_count |-> <<>>]

Init ==
    /\ usize_bits \in {32, 64}
    /\ overflow_checks \in BOOLEAN
    /\ phase = "start"
    /\ ctor = NoCtor
    /\ bitmap = {}
    /\ bitmap_len = <<>>
    /\ bitmap_bits = <<>>
    /\ k_num = 0
    /\ sips = <<0, 0>>
    /\ inserted = {}
    /\ lastOp = NoCall

\* ---------------------------------------------------------------- sizing

\* f64::consts::LN_2 and Float::ln(2.0) = 0.693147.., as the fraction
\* LN2_NUM / LN2_DEN
LN2_NUM == 693147
LN2_DEN == 1000000

\* what an out-of-range float-to-integer "as" cast may leave: any value of
\* the target type (a sample of them)
UndefCast == {0, 1, 3}

\* (num / den).ceil() as an unsigned integer of the given width: the ceiling
\* when it is below 2^bits, else whatever the cast leaves
FloatToUint(num, den, bits) ==
    IF BigLess(BigSub([i \in 1..(bits \div 16) |-> 0] \o den, den), num)
    THEN UndefCast
    ELSE {CeilDiv(num, den)}

\* usize arguments exist only below 2^usize_bits
IsUsize(a) == Fits(a, usize_bits)

\* u64 a * c: the product, wrapped or trapped as the build does on overflow
U64Mul(a, c) ==
    LET p == BigMulSmall(a, c)
    IN  IF Fits(p, 64) THEN [ok |-> TRUE, val |-> p]
        ELSE IF overflow_checks THEN [ok |-> FALSE, val |-> <<>>]
        ELSE [ok |-> TRUE, val |-> Wrap(p, 64)]

\* u64 a + b, likewise
U64Add(a, b) ==
    LET s == BigAdd(a, b)
    IN  IF Fits(s, 64) THEN [ok |-> TRUE, val |-> s]
        ELSE IF overflow_checks THEN [ok |-> FALSE, val |-> <<>>]
        ELSE [ok |-> TRUE, val |-> Wrap(s, 64)]

\* u64 a % b: division by zero panics in every build
U64Rem(a, b) ==
    IF b = <<>> THEN [ok |-> FALSE, val |-> <<>>]
    ELSE [ok |-> TRUE, val |-> BigRem(a, b)]

\* cmp::max(k_num, 1)
MaxOneDropped(k) == k
MaxOne(k) == IF k < 1 THEN 1 ELSE k

\* Bloom::optimal_k_num: the values (m / n * ln 2).ceil() as u32 may take,
\* each raised to at least 1; n # 0
optimal_k_num(m, n) ==
    { MaxOne(k) :
        k \in FloatToUint(BigMulInt(m, LN2_NUM), BigMulInt(n, LN2_DEN), 32) }

\* the asserts of Bloom::compute_bitmap_size
ComputeSizeAccepts(items_count, fp_p) ==
    /\ BigLess(<<>>, items_count)
    /\ FloatGtZero(fp_p) /\ FloatLtOne(fp_p)

\* Bloom::compute_bitmap_size for an accepted fp_p = 2^-e:
\* n * ln(2^-e) / (-8 * ln2 * ln2) = n * e / (8 * ln2), its ceiling as usize
compute_bitmap_size(items_count, fp_p) ==
    { Big(size) :
        size \in FloatToUint(BigMulInt(BigMulSmall(items_count, fp_p.e),
                                       LN2_DEN),
                             Big(8 * LN2_NUM), usize_bits) }

\* the assert of Bloom::new
NewAcceptsEither(bitmap_size, items_count) ==
    BigLess(<<>>, bitmap_size) \/ BigLess(<<>>, items_count)
NewAccepts(bitmap_size, items_count) ==
    BigLess(<<>>, bitmap_size) /\ BigLess(<<>>, items_count)

\* --------------------------------------------------------------- hashing

\* 0xffffffffffffffc5 = 2^64 - 59
HashModulus == <<65477, 65535, 65535, 65535>>

\* 64-bit values SipHasher::finish returns: small ones, two that agree modulo
\* 8, and ones whose multiples and sums pass 2^64
HashSamples ==
    << Big(1), Big(9), Pow2(63), BigSub(Pow2(64), <<1>>), Big(10),
       BigSub(Pow2(63), <<1>>) >>

\* the item's SipHash-2-4 under a key: a fixed function of key and item
SipHash(key, item) == HashSamples[((key + item - 1) % Len(HashSamples)) + 1]

\* Bloom::bloom_hash(hashes, item, k_i): what it returns, the hashes array it
\* leaves, and whether it returned at all
bloom_hash(hashes, item, k_i) ==
    IF k_i < 2
    THEN LET hash == SipHash(sips[k_i + 1], item)
         IN  [ok |-> TRUE, hash |-> hash,
              hashes |-> [hashes EXCEPT ![k_i + 1] = hash]]
    ELSE LET prod == U64Mul(hashes[2], k_i)
         IN  IF ~prod.ok THEN [ok |-> FALSE, hash |-> <<>>, hashes |-> hashes]
             ELSE LET sum == U64Add(hashes[1],
                                    U64Rem(prod.val, HashModulus).val)
                  IN  [ok |-> sum.ok, hash |-> sum.val, hashes |-> hashes]

\* (hash % self.bitmap_bits) as usize
bit_offset(hash) ==
    LET r == U64Rem(hash, bitmap_bits)
    IN  [ok |-> r.ok, val |-> Wrap(r.val, usize_bits)]

\* ----------------------------------------------------------- bit storage

\* Bitv::get(i): None beyond the length, which unwrap() turns into a panic
BitvInRange(i) == BigLess(i, bitmap_len)
BitvGet(bits, i) == i \in bits

\* Bitv::set(i, true)
BitvSetToggles(bits, i) == IF i \in bits THEN bits \ {i} ELSE bits \cup {i}
BitvSetClearsRest(bits, i) == {i}
BitvSetTrue(bits, i) == bits \cup {i}

Panicked(bits, trace) ==
    [outcome |-> "panic", bitmap |-> bits, found |-> FALSE, rounds |-> trace]

RECURSIVE SetRoundsStopsEarly(_, _, _, _, _)
SetRoundsStopsEarly(item, k_i, hashes, bits, trace) ==
    IF k_i + 1 >= k_num
    THEN [outcome |-> "ok", bitmap |-> bits, found |-> FALSE, rounds |-> trace]
    ELSE LET h == bloom_hash(hashes, item, k_i)
         IN  IF ~h.ok THEN Panicked(bits, trace)
             ELSE LET off == bit_offset(h.hash)
                      seen == Append(trace, h.hash)
                  IN  IF ~off.ok \/ ~BitvInRange(off.val)
                      THEN Panicked(bits, seen)
                      ELSE SetRoundsStopsEarly(item, k_i + 1, h.hashes,
                                               BitvSetTrue(bits, off.val),
                                               seen)

RECURSIVE SetRounds(_, _, _, _, _)
\* the loop of Bloom::set from round k_i on
SetRounds(item, k_i, hashes, bits, trace) ==
    IF k_i >= k_num
    THEN [outcome |-> "ok", bitmap |-> bits, found |-> FALSE, rounds |-> trace]
    ELSE LET h == bloom_hash(hashes, item, k_i)
         IN  IF ~h.ok THEN Panicked(bits, trace)
             ELSE LET off == bit_offset(h.hash)
                      seen == Append(trace, h.hash)
                  IN  IF ~off.ok \/ ~BitvInRange(off.val)
                      THEN Panicked(bits, seen)
                      ELSE SetRounds(item, k_i + 1, h.hashes,
                                     BitvSetTrue(bits, off.val), seen)

RECURSIVE CheckRounds(_, _, _, _, _)
\* the loop of Bloom::check from round k_i on
CheckRounds(item, k_i, hashes, bits, trace) ==
    IF k_i >= k_num
    THEN [outcome |-> "ok", bitmap |-> bits, found |-> TRUE, rounds |-> trace]
    ELSE LET h == bloom_hash(hashes, item, k_i)
         IN  IF ~h.ok THEN Panicked(bits, trace)
             ELSE LET off == bit_offset(h.hash)
                      seen == Append(trace, h.hash)
                  IN  IF ~off.ok \/ ~BitvInRange(off.val)
                      THEN Panicked(bits, seen)
                      ELSE IF BitvGet(bits, off.val) = FALSE
                      THEN [outcome |-> "ok", bitmap |-> bits,
                            found |-> FALSE, rounds |-> seen]
                      ELSE CheckRounds(item, k_i + 1, h.hashes, bits, seen)

RECURSIVE CheckAndSetStopsEarly(_, _, _, _, _, _)
CheckAndSetStopsEarly(item, k_i, hashes, bits, found, trace) ==
    IF k_i >= k_num
    THEN [outcome |-> "ok", bitmap |-> bits, found |-> found, rounds |-> trace]
    ELSE LET h == bloom_hash(hashes, item, k_i)
         IN  IF ~h.ok THEN Panicked(bits, trace)
             ELSE LET off == bit_offset(h.hash)
                      seen == Append(trace, h.hash)
                  IN  IF ~off.ok \/ ~BitvInRange(off.val)
                      THEN Panicked(bits, seen)
                      ELSE IF BitvGet(bits, off.val) = FALSE
                      THEN [outcome |-> "ok",
                            bitmap |-> BitvSetTrue(bits, off.val),
                            found |-> FALSE, rounds |-> seen]
                      ELSE CheckAndSetStopsEarly(item, k_i + 1, h.hashes,
                                                 bits, found, seen)

RECURSIVE CheckAndSetRounds(_, _, _, _, _, _)
\* the loop of Bloom::check_and_set from round k_i on
CheckAndSetRounds(item, k_i, hashes, bits, found, trace) ==
    IF k_i >= k_num
    THEN [outcome |-> "ok", bitmap |-> bits, found |-> found, rounds |-> trace]
    ELSE LET h == bloom_hash(hashes, item, k_i)
         IN  IF ~h.ok THEN Panicked(bits, trace)
             ELSE LET off == bit_offset(h.hash)
                      seen == Append(trace, h.hash)
                  IN  IF ~off.ok \/ ~BitvInRange(off.val)
                      THEN Panicked(bits, seen)
                      ELSE IF BitvGet(bits, off.val) = FALSE
                      THEN CheckAndSetRounds(item, k_i + 1, h.hashes,
                                             BitvSetTrue(bits, off.val),
                                             FALSE, seen)
                      ELSE CheckAndSetRounds(item, k_i + 1, h.hashes, bits,
                                             found, seen)

\* Bloom::set, Bloom::check and Bloom::check_and_set on the current filter
set(item) == SetRounds(item, 0, <<<<>>, <<>>>>, bitmap, <<>>)
check(item) == CheckRounds(item, 0, <<<<>>, <<>>>>, bitmap, <<>>)
CheckAndSetFoundUnset(item) ==
    CheckAndSetRounds(item, 0, <<<<>>, <<>>>>, bitmap, FALSE, <<>>)
check_and_set(item) ==
    CheckAndSetRounds(item, 0, <<<<>>, <<>>>>, bitmap, TRUE, <<>>)

\* --------------------------------------------------------------- actions

Call(op, bitmap_size, items_count, fp_p) ==
    [NoCall EXCEPT !.op = op, !.bitmap_size = bitmap_size,
                   !.items_count = items_count, !.fp_p = fp_p]

\* a panic before any Bloom value exists
Abort(call) ==
    /\ phase' = "aborted"
    /\ lastOp' = [call EXCEPT !.outcome = "panic"]
    /\ UNCHANGED <<build, ctor, filter, inserted>>

\* Bloom::new(bitmap_size, items_count), called directly or by new_for_fp_rate
Construct(call, bitmap_size, items_count) ==
    IF ~NewAccepts(bitmap_size, items_count) THEN Abort(call)
    ELSE LET bits == U64Mul(bitmap_size, 8)
         IN  IF ~bits.ok THEN Abort(call)
             ELSE /\ \E k \in optimal_k_num(bits.val, items_count) :
                        k_num' = k
                  /\ bitmap_bits' = bits.val
                  /\ bitmap_len' = Wrap(bits.val, usize_bits)
                  /\ bitmap' = {}
                  /\ \E k0 \in SipKeys, k1 \in SipKeys : sips' = <<k0, k1>>
                  /\ ctor' = [bitmap_size |-> bitmap_size,
                              items_count |-> items_count]
                  /\ phase' = "ready"
                  /\ lastOp' = call
                  /\ UNCHANGED <<build, inserted>>

New ==
    /\ phase = "start"
    /\ \E a \in NewArgs :
          /\ IsUsize(a[1]) /\ IsUsize(a[2])
          /\ Construct(Call("new", a[1], a[2], NoRate), a[1], a[2])

NewForFpRate ==
    /\ phase = "start"
    /\ \E n \in FpItemCounts, p \in FpRates :
          IF ~ComputeSizeAccepts(n, p)
          THEN Abort(Call("new_for_fp_rate", <<>>, n, p))
          ELSE \E size \in compute_bitmap_size(n, p) :
                  Construct(Call("new_for_fp_rate", size, n, p), size, n)

ComputeBitmapSize ==
    /\ phase = "start"
    /\ \E n \in FpItemCounts, p \in FpRates :
          IF ~ComputeSizeAccepts(n, p)
          THEN Abort(Call("compute_bitmap_size", <<>>, n, p))
          ELSE /\ \E size \in compute_bitmap_size(n, p) :
                     lastOp' = [Call("compute_bitmap_size", <<>>, n, p)
                                   EXCEPT !.value = size]
               /\ UNCHANGED <<build, phase, ctor, filter, inserted>>

\* what a call on the filter leaves: its bits, its result, a panic or not
Finish(op, item, r) ==
    /\ bitmap' = r.bitmap
    /\ phase' = IF r.outcome = "ok" THEN "ready" ELSE "aborted"
    /\ inserted' = IF r.outcome = "ok" /\ op # "check"
                   THEN inserted \cup {item} ELSE inserted
    /\ lastOp' = [NoCall EXCEPT !.op = op, !.item = item,
                                !.outcome = r.outcome, !.found = r.found,
                                !.rounds = r.rounds]
    /\ UNCHANGED <<build, ctor, bitmap_len, bitmap_bits, k_num, sips>>

Set == phase = "ready" /\ \E item \in Items : Finish("set", item, set(item))

Check ==
    phase = "ready" /\ \E item \in Items : Finish("check", item, check(item))

CheckAndSet ==
    /\ phase = "ready"
    /\ \E item \in Items : Finish("check_and_set", item, check_and_set(item))

NumberOfBits ==
    /\ phase = "ready"
    /\ lastOp' = [NoCall EXCEPT !.op = "number_of_bits", !.value = bitmap_bits]
    /\ UNCHANGED <<build, phase, ctor, filter, inserted>>

NumberOfHashFunctions ==
    /\ phase = "ready"
    /\ lastOp' = [NoCall EXCEPT !.op = "number_of_hash_functions",
                                !.value = Big(k_num)]
    /\ UNCHANGED <<build, phase, ctor, filter, inserted>>

Next ==
    \/ New
    \/ NewForFpRate
    \/ ComputeBitmapSize
    \/ Set
    \/ Check
    \/ CheckAndSet
    \/ NumberOfBits
    \/ NumberOfHashFunctions

Spec == Init /\ [][Next]_vars

\* ----------------------------------------------------------------- claims

MembershipOps == {"set", "check", "check_and_set"}
Accessors == {"number_of_bits", "number_of_hash_functions"}
Constructors == {"new", "new_for_fp_rate"}

Returned(op) == lastOp.op = op /\ lastOp.outcome = "ok"

\* C1: no false negatives. A check(x) that follows a completed insertion of x
\* (by set or by check_and_set) on the same filter returns true, whatever else
\* was inserted; and in every state of a filter check(x) would return true
\* for every x inserted so far.
NoFalseNegatives ==
    /\ (Returned("check") /\ lastOp.item \in inserted) => lastOp.found = TRUE
    /\ phase = "ready" =>
          \A x \in inserted : check(x).outcome = "ok" /\ check(x).found = TRUE

\* a check(x) returned after x and another item were inserted, three rounds
CheckedAfterSet ==
    /\ Returned("check") /\ lastOp.item \in inserted
    /\ inserted # {lastOp.item}
    /\ k_num >= 3 /\ Len(lastOp.rounds) = k_num

\* C2: check_and_set(x) returns what check(x) returns in the state before the
\* call and leaves the bit array set(x) leaves from that state.
CheckAndSetIsCheckThenSet ==
    [][(lastOp'.op = "check_and_set" /\ lastOp'.outcome = "ok") =>
          /\ check(lastOp'.item).outcome = "ok"
          /\ lastOp'.found = check(lastOp'.item).found
          /\ set(lastOp'.item).outcome = "ok"
          /\ bitmap' = set(lastOp'.item).bitmap]_vars

\* a check_and_set that returned false after scanning three rounds on a filter
\* that already held bits
CheckAndSetScannedAll ==
    /\ Returned("check_and_set") /\ lastOp.found = FALSE
    /\ k_num >= 3 /\ Len(lastOp.rounds) = k_num
    /\ inserted # {lastOp.item}

\* C3 as stated: the first check_and_set(x) of an item not inserted before
\* returns false and every later one returns true.
FirstCheckAndSetReturnsFalse ==
    [][(lastOp'.op = "check_and_set" /\ lastOp'.outcome = "ok") =>
          lastOp'.found = (lastOp'.item \in inserted)]_vars

\* C3 amended: check_and_set(x) returns false exactly when one of x's round
\* positions is clear before the call (set(x) would change the bit array), so
\* it returns false on a filter with no bit set and true after any completed
\* insertion of x.
CheckAndSetReportsPriorBits ==
    [][(lastOp'.op = "check_and_set" /\ lastOp'.outcome = "ok") =>
          /\ lastOp'.found = (set(lastOp'.item).bitmap = bitmap)
          /\ bitmap = {} => lastOp'.found = FALSE
          /\ lastOp'.item \in inserted => lastOp'.found = TRUE]_vars

\* a check_and_set(x) returned true on a filter into which only x was inserted
SecondCheckAndSet ==
    /\ Returned("check_and_set") /\ lastOp.found = TRUE
    /\ inserted = {lastOp.item} /\ k_num >= 2

\* the rate lies strictly between 0 and 1
RateInOpenUnitInterval(p) == p.cls = "pos" /\ p.e >= 1

InvalidArguments ==
    \/ lastOp.op = "new"
       /\ (lastOp.bitmap_size = <<>> \/ lastOp.items_count = <<>>)
    \/ lastOp.op \in {"new_for_fp_rate", "compute_bitmap_size"}
       /\ (lastOp.items_count = <<>> \/ ~RateInOpenUnitInterval(lastOp.fp_p))

\* C4: new, new_for_fp_rate and compute_bitmap_size called with a zero size,
\* a zero item count or a rate outside (0, 1) abort, return nothing and leave
\* no filter.
InvalidArgumentsAbort ==
    InvalidArguments =>
        /\ lastOp.outcome = "panic" /\ lastOp.value = <<>>
        /\ phase = "aborted"
        /\ ctor = NoCtor
        /\ filter = <<{}, <<>>, <<>>, 0, <<0, 0>>>>

\* new_for_fp_rate was called with a valid item count and the rate 1.0
RateOneRejected ==
    /\ lastOp.op = "new_for_fp_rate" /\ lastOp.outcome = "panic"
    /\ lastOp.items_count # <<>>
    /\ lastOp.fp_p = [cls |-> "pos", e |-> 0]

\* C5: set is idempotent. After a completed set(x), another set(x) completes
\* and leaves the bit array as it is, so every check(y) answers the same.
SetIdempotent ==
    Returned("set") =>
        /\ set(lastOp.item).outcome = "ok"
        /\ set(lastOp.item).bitmap = bitmap
        /\ \A y \in Items :
              CheckRounds(y, 0, <<<<>>, <<>>>>, set(lastOp.item).bitmap, <<>>)
                  = check(y)

\* a set(x) of three rounds returned and left at least two bits set
SetOfThreeRounds ==
    Returned("set") /\ k_num >= 3 /\ Cardinality(bitmap) >= 2

\* C6: no call clears a bit, and check changes none.
BitsMonotonic ==
    [][phase = "ready" =>
          /\ bitmap \subseteq bitmap'
          /\ lastOp'.op = "check" => bitmap' = bitmap]_vars

\* a check ran on a filter holding the bits of two inserted items
CheckOnFilledFilter ==
    /\ lastOp.op = "check"
    /\ Cardinality(inserted) >= 2 /\ Cardinality(bitmap) >= 2

\* C7: for all arguments new accepts, number_of_bits() is bitmap_size * 8,
\* positive and a multiple of 8, the bit array has that length and starts all
\* false, and number_of_bits() keeps that value.
BitsAreEightTimesSize ==
    phase = "ready" =>
        /\ bitmap_bits = BigMulSmall(ctor.bitmap_size, 8)
        /\ BigLess(<<>>, bitmap_bits)
        /\ BigRem(bitmap_bits, Big(8)) = <<>>
        /\ bitmap_len = bitmap_bits
        /\ lastOp.op \in Constructors => bitmap = {}
        /\ lastOp.op = "number_of_bits" =>
              lastOp.value = BigMulSmall(ctor.bitmap_size, 8)

\* C8: number_of_hash_functions() is at least 1 on every filter and k_num
\* does not change once the filter exists.
AtLeastOneHashFunction ==
    [][/\ phase' = "ready" => k_num' >= 1
       /\ lastOp'.op = "number_of_hash_functions" =>
             lastOp'.value = Big(k_num') /\ BigLeq(<<1>>, lastOp'.value)
       /\ phase = "ready" => k_num' = k_num]_vars

\* number_of_hash_functions() was called on a filter with fewer bits than
\* items_count, after an insertion
FewerBitsThanItems ==
    /\ lastOp.op = "number_of_hash_functions"
    /\ BigLess(bitmap_bits, ctor.items_count)
    /\ inserted # {}

\* C9: set, check, check_and_set and the accessors complete on every filter a
\* constructor returned.
OperationsAreTotal ==
    lastOp.op \in MembershipOps \cup Accessors => lastOp.outcome = "ok"

\* h0 + ((k_i * h1) mod P), the product and its remainder taken over the
\* integers, as the 64-bit value a round returns
DoubleHash(h0, h1, k_i) ==
    Wrap(BigAdd(h0, BigRem(BigMulSmall(h1, k_i), HashModulus)), 64)

\* C10: rounds 0 and 1 return the item's two SipHash values h0 and h1, and
\* every round k_i >= 2 returns h0 + ((k_i * h1) mod P) for those h0 and h1,
\* for all 64-bit h0 and h1.
RoundsFollowDoubleHashing ==
    lastOp.op \in MembershipOps =>
        \A i \in 1..Len(lastOp.rounds) :
            lastOp.rounds[i] =
                IF i <= 2 THEN SipHash(sips[i], lastOp.item)
                ELSE DoubleHash(lastOp.rounds[1], lastOp.rounds[2], i - 1)

====
